---- MODULE Spec2Model ----
(***************************************************************************)
(* The PyAnsys troubleshooting RAG pipeline of web_search_rag_standalone.py *)
(* and its caller cli.py: a four-node graph (search_web, fetch_sources,     *)
(* generate_answer, handle_error) threaded by one RAGState record, with    *)
(* the external collaborators (search provider, HTTP fetch, text           *)
(* extraction, chat client) as nondeterministic inputs of each node.       *)
(*                                                                         *)
(* Text is kept as a sequence of chunks [c, k, n]: the unit of text c, of  *)
(* k characters (one character, or a phrase read as a whole), repeated n   *)
(* times.  Whitespace is always a chunk of single characters, so           *)
(* str.strip(), len(), lower(), "in" and truthiness are computed as Python *)
(* computes them.                                                          *)
(***************************************************************************)
EXTENDS Integers, Sequences, FiniteSets, TLC

VARIABLES pc, mode, state, executed, events, calls, printed

vars == <<pc, mode, state, executed, events, calls, printed>>

(***************************************************************************)
(* Bounds of the model and constants of the program.                       *)
(***************************************************************************)
\* longest list the search provider returns in the model
MaxResults == 3

\* results[:2] in fetch_sources
FetchCap == 2

\* len(extracted.strip()) >= 200 in fetch_sources
MinContentLen == 200

(***************************************************************************)
(* Text.                                                                   *)
(***************************************************************************)
Empty == <<>>

\* a phrase of k characters, no whitespace at either end
W(s, k) == <<[c |-> s, k |-> k, n |-> 1]>>

\* the character ch, n times
Ch(ch, n) == <<[c |-> ch, k |-> 1, n |-> n]>>

Sp(n) == Ch(" ", n)
Nl(n) == Ch("\n", n)

IsSpace(ch) == ch.c \in {" ", "\n", "\t"}

\* s + t: adjacent runs of the same character are one run
Cat(s, t) ==
  IF s = <<>> THEN t
  ELSE IF t = <<>> THEN s
  ELSE IF s[Len(s)].c = t[1].c /\ s[Len(s)].k = 1 /\ t[1].k = 1
       THEN SubSeq(s, 1, Len(s) - 1)
            \o Ch(t[1].c, s[Len(s)].n + t[1].n)
            \o Tail(t)
       ELSE s \o t

\* the text spelled by a sequence of characters
RECURSIVE Spell(_)
Spell(chars) ==
  IF chars = <<>> THEN <<>> ELSE Cat(Ch(chars[1], 1), Spell(Tail(chars)))

RECURSIVE LStrip(_)
LStrip(s) == IF s # <<>> /\ IsSpace(s[1]) THEN LStrip(Tail(s)) ELSE s

RECURSIVE RStrip(_)
RStrip(s) ==
  IF s # <<>> /\ IsSpace(s[Len(s)]) THEN RStrip(SubSeq(s, 1, Len(s) - 1)) ELSE s

\* str.strip()
Strip(s) == RStrip(LStrip(s))

\* len(s)
RECURSIVE StrLen(_)
StrLen(s) == IF s = <<>> THEN 0 ELSE s[1].k * s[1].n + StrLen(Tail(s))

\* the units of s one by one, each run unrolled
RECURSIVE Units(_)
Units(s) ==
  IF s = <<>> THEN <<>>
  ELSE <<s[1].c>> \o Units(IF s[1].n > 1
                           THEN Ch(s[1].c, s[1].n - 1) \o Tail(s)
                           ELSE Tail(s))

\* t in s
Contains(s, t) ==
  LET us == Units(s)
      ut == Units(t)
  IN \E i \in 1..(Len(us) + 1) :
       i + Len(ut) - 1 <= Len(us) /\ SubSeq(us, i, i + Len(ut) - 1) = ut

\* s.startswith(t), s.endswith(t)
StartsWith(s, t) ==
  LET us == Units(s)
      ut == Units(t)
  IN Len(ut) <= Len(us) /\ SubSeq(us, 1, Len(ut)) = ut

EndsWith(s, t) ==
  LET us == Units(s)
      ut == Units(t)
  IN Len(ut) <= Len(us) /\ SubSeq(us, Len(us) - Len(ut) + 1, Len(us)) = ut

\* Optional[str]
None == [some |-> FALSE, val |-> <<>>]
Some(s) == [some |-> TRUE, val |-> s]

\* bool(x) of an Optional[str]: None and "" are falsy
Truthy(o) == o.some /\ o.val # <<>>

\* a or b, on strings where a missing key reads as ""
Or(a, b) == IF a # <<>> THEN a ELSE b

(***************************************************************************)
(* RAGState and the records inside it.                                     *)
(***************************************************************************)
\* the state record run and run_stream build
InitialState(query, num_results) ==
  [query |-> query, search_results |-> <<>>, fetched_sources |-> <<>>,
   answer |-> Empty, error |-> None, num_results |-> num_results]

\* one external call, in the order the calls are made: op is the call,
\* arg the 1-based position of the search result it is made for (0 when it
\* is for none), req the query it was given (a search; empty otherwise),
\* res its outcome, val what it returned (the items of a
\* search, the text of a page, an extraction or a reply) or the message of
\* the exception it raised.  A chat call has res "malformed" when it returned
\* a response whose reading raises.  The reading of the reply out of the
\* response ("content") is logged as a call; the val of ollama.Client() tells whether
\* the client it returned has a close operation.
Call(op, arg, res, val) ==
  [op |-> op, arg |-> arg, req |-> <<>>, res |-> res, val |-> val]

SearchCall(query, res, val) ==
  [op |-> "search", arg |-> 0, req |-> query, res |-> res, val |-> val]

\* what running a node gives: the state it returns, the calls it made, and
\* whether an exception left the node instead of a state
Ran(out, log) == [out |-> out, log |-> log, raised |-> FALSE]
Raised(st, log) == [out |-> st, log |-> log, raised |-> TRUE]

(***************************************************************************)
(* _safe_get: the page text, or None.  resp is what requests.get does:     *)
(* exc "request" is a requests.RequestException, exc "other" any other     *)
(* exception, exc "none" a response with a status code and a text.         *)
(***************************************************************************)
HttpErrorStatus == 400

safe_get(resp) ==
  IF resp.exc = "other" THEN [raised |-> TRUE, msg |-> resp.msg, html |-> None]
  ELSE IF resp.exc = "request" THEN [raised |-> FALSE, msg |-> Empty, html |-> None]
  ELSE IF resp.status >= HttpErrorStatus
       THEN [raised |-> FALSE, msg |-> Empty, html |-> None]
       ELSE [raised |-> FALSE, msg |-> Empty, html |-> Some(resp.text)]

\* what the call log keeps of a requests.get
GetOutcome(g) ==
  IF g.raised THEN "raise"
  ELSE IF ~g.html.some THEN "none"
  ELSE IF g.html.val = Empty THEN "empty" ELSE "text"

(***************************************************************************)
(* _normalize_result: item holds the provider's six keys, a missing key    *)
(* reading as "".                                                          *)
(***************************************************************************)
normalize_result(item) ==
  [title |-> Or(item.title, Or(item.heading, Empty)),
   url |-> Or(item.href, Or(item.url, Empty)),
   snippet |-> Or(item.body, Or(item.snippet, Empty))]

RECURSIVE NormalizeAll(_)
NormalizeAll(raw) ==
  IF raw = <<>> THEN <<>>
  ELSE <<normalize_result(raw[1])>> \o NormalizeAll(Tail(raw))

(***************************************************************************)
(* _augment_query.                                                         *)
(***************************************************************************)
\* str.lower() of one character; a phrase is read as a whole and holds no
\* upper-case letter
LowerChar(c) ==
  CASE c = "A" -> "a" [] c = "N" -> "n" [] c = "S" -> "s" [] c = "Y" -> "y"
    [] c = "P" -> "p" [] OTHER -> c

RECURSIVE Lower(_)
Lower(s) ==
  IF s = <<>> THEN <<>>
  ELSE <<[c |-> LowerChar(s[1].c), k |-> s[1].k, n |-> s[1].n]>>
       \o Lower(Tail(s))

\* the keyword looked for in the query as typed, not in its lower case
augment_query_cased(query) ==
  LET q == Strip(query)
  IN IF q = Empty THEN q
     ELSE IF Contains(q, Spell(<<"p", "y", "a", "n", "s", "y", "s">>))
             \/ Contains(q, Spell(<<"a", "n", "s", "y", "s">>))
     THEN q
     ELSE Cat(Spell(<<"P", "y", "A", "n", "s", "y", "s">>), Cat(Sp(1), q))

augment_query(query) ==
  LET q == Strip(query)
      lower == Lower(q)
  IN IF q = Empty THEN q
     ELSE IF Contains(lower, Spell(<<"p", "y", "a", "n", "s", "y", "s">>))
             \/ Contains(lower, Spell(<<"a", "n", "s", "y", "s">>))
     THEN q
     ELSE Cat(Spell(<<"P", "y", "A", "n", "s", "y", "s">>), Cat(Sp(1), q))

(***************************************************************************)
(* search_web.  resp is what DDGS().text does: raise msg, or return items. *)
(***************************************************************************)
SearchFailed == W("search_web failed:", 18) \o Sp(1)

search_web(st, resp) ==
  LET query == augment_query(st.query) IN
  IF resp.raised
  THEN Ran([st EXCEPT !.error = Some(Cat(SearchFailed, resp.msg))],
           <<SearchCall(query, "raise", resp.msg)>>)
  ELSE Ran([st EXCEPT !.search_results = NormalizeAll(resp.items),
                      !.error = None],
           <<SearchCall(query, "ok", resp.items)>>)

(***************************************************************************)
(* fetch_sources.  env[i] is what the collaborators do for search result   *)
(* i: env[i].get is the requests.get response, env[i].ext the outcome of   *)
(* trafilatura.extract (kind "raise", "none" or "text").  The loop runs    *)
(* over results[:2]; r is its state: the sources appended so far, the      *)
(* calls made so far, and whether an exception left it.                    *)
(***************************************************************************)
FetchFailed == W("fetch_sources failed:", 21) \o Sp(1)
NoSources == W("No sources fetched.", 19)

Min(a, b) == IF a <= b THEN a ELSE b

\* results[:1]
Prefix_one(results) == SubSeq(results, 1, Min(1, Len(results)))

\* results[:FetchCap]
Prefix(results) == SubSeq(results, 1, Min(FetchCap, Len(results)))

Source(title, url, content, from_snippet) ==
  [title |-> title, url |-> url, content |-> content,
   from_snippet |-> from_snippet]

\* extraction run on whatever _safe_get returned
GotPage_always(html) == TRUE

\* if html:
GotPage(html) == Truthy(html)

\* a fetch of every result, with or without url
ShouldFetch_always(url) == TRUE

\* if url:
ShouldFetch(url) == url # Empty

\* any extracted text taken, however short
LongEnough_anytext(extracted) == extracted.kind = "text"

\* the threshold taken on the untrimmed text
LongEnough_untrimmed(extracted) ==
  /\ extracted.kind = "text"
  /\ extracted.text # Empty
  /\ StrLen(extracted.text) >= MinContentLen

\* if extracted and len(extracted.strip()) >= 200, extracted being None
\* (kind "none") or a text
LongEnough(extracted) ==
  /\ extracted.kind = "text"
  /\ extracted.text # Empty
  /\ StrLen(Strip(extracted.text)) >= MinContentLen

\* one iteration of the loop body, for item at position i
FetchOne(item, i, e) ==
  IF ShouldFetch(item.url)
  THEN LET g == safe_get(e.get)
           getCall == <<Call("get", i, GetOutcome(g),
                             IF g.raised THEN g.msg ELSE g.html.val)>>
       IN IF g.raised
          THEN [raised |-> TRUE, msg |-> g.msg, src |-> <<>>, log |-> getCall]
          ELSE IF GotPage(g.html)
          THEN LET extCall == <<Call("extract", i, e.ext.kind, e.ext.text)>>
               IN IF e.ext.kind = "raise"
                  THEN [raised |-> TRUE, msg |-> e.ext.text, src |-> <<>>,
                        log |-> getCall \o extCall]
                  ELSE IF LongEnough(e.ext)
                  THEN [raised |-> FALSE, msg |-> Empty,
                        src |-> <<Source(item.title, item.url,
                                         Strip(e.ext.text), "false")>>,
                        log |-> getCall \o extCall]
                  ELSE [raised |-> FALSE, msg |-> Empty,
                        src |-> <<Source(item.title, item.url,
                                         item.snippet, "true")>>,
                        log |-> getCall \o extCall]
          ELSE [raised |-> FALSE, msg |-> Empty,
                src |-> <<Source(item.title, item.url, item.snippet, "true")>>,
                log |-> getCall]
  ELSE [raised |-> FALSE, msg |-> Empty,
        src |-> <<Source(item.title, item.url, item.snippet, "true")>>,
        log |-> <<>>]

RECURSIVE FetchLoop(_, _, _, _)
FetchLoop(items, i, env, r) ==
  IF i > Len(items) THEN r
  ELSE LET one == FetchOne(items[i], i, env[i])
       IN IF one.raised
          THEN [raised |-> TRUE, msg |-> one.msg, sources |-> r.sources,
                log |-> r.log \o one.log]
          ELSE FetchLoop(items, i + 1, env,
                         [raised |-> FALSE, msg |-> Empty,
                          sources |-> r.sources \o one.src,
                          log |-> r.log \o one.log])

FetchRun(st, env) ==
  FetchLoop(Prefix(st.search_results), 1, env,
            [raised |-> FALSE, msg |-> Empty, sources |-> <<>>, log |-> <<>>])

\* fetch_sources without the check for an empty list of sources
fetch_sources_nocheck(st, env) ==
  LET r == FetchRun(st, env) IN
  IF r.raised
  THEN Ran([st EXCEPT !.error = Some(Cat(FetchFailed, r.msg))], r.log)
  ELSE Ran([st EXCEPT !.fetched_sources = r.sources, !.error = None], r.log)

fetch_sources(st, env) ==
  LET r == FetchRun(st, env) IN
  IF r.raised
  THEN Ran([st EXCEPT !.error = Some(Cat(FetchFailed, r.msg))], r.log)
  ELSE IF r.sources = <<>>
  THEN Ran([st EXCEPT !.fetched_sources = <<>>, !.error = Some(NoSources)],
           r.log)
  ELSE Ran([st EXCEPT !.fetched_sources = r.sources, !.error = None], r.log)

(***************************************************************************)
(* generate_answer.  env is what the ollama client does: env.ctor whether  *)
(* ollama.Client() returns ("ok") or raises, env.hasClose what             *)
(* hasattr(client, "close") gives, env.chat the outcome of client.chat     *)
(* (kind "reply": a response holding the text; "malformed": a response     *)
(* whose .get raises; "raise"), env.close[j] whether the j-th call of      *)
(* client.close() raises.  The prompt is built from state without changing *)
(* it and is not kept.                                                     *)
(***************************************************************************)
GenerateFailed == W("generate_answer failed:", 23) \o Sp(1)
Marker == W("This is the fix.", 16)

\* the client ollama.Client() returns: with a close operation or without
ClientObject(env) == IF env.hasClose THEN W("close", 5) ELSE Empty

\* an except branch whose release is not guarded: a failing close leaves the
\* stage as an exception
GenerateExcept_unguarded(st, env, msg, created, closed, log) ==
  IF created /\ env.hasClose /\ env.close[closed + 1]
  THEN Raised(st, log \o <<Call("close", 0, "raise", env.closeMsg)>>)
  ELSE Ran([st EXCEPT !.error = Some(Cat(GenerateFailed, msg))],
           log \o (IF created
                   THEN IF env.hasClose
                        THEN <<Call("close", 0, "ok", Empty)>>
                        ELSE <<>>
                   ELSE <<>>))

\* an except branch that also writes the failure into answer
GenerateExcept_answer(st, env, msg, created, closed, log) ==
  Ran([st EXCEPT !.answer = Cat(GenerateFailed, msg),
                 !.error = Some(Cat(GenerateFailed, msg))],
      log \o (IF created
              THEN IF ~env.hasClose THEN <<>>
                   ELSE IF env.close[closed + 1]
                   THEN <<Call("close", 0, "raise", env.closeMsg)>>
                   ELSE <<Call("close", 0, "ok", Empty)>>
              ELSE <<>>))

\* an except branch that does not release the client
GenerateExcept_norelease(st, env, msg, created, closed, log) ==
  Ran([st EXCEPT !.error = Some(Cat(GenerateFailed, msg))], log)

\* the except branch: release the client if it exists, swallow a failure of
\* the release, report exc.  log holds the calls made before, closed is the
\* number of close calls among them.
GenerateExcept(st, env, msg, created, closed, log) ==
  Ran([st EXCEPT !.error = Some(Cat(GenerateFailed, msg))],
      log \o (IF created
              THEN IF ~env.hasClose THEN <<>>
                   ELSE IF env.close[closed + 1]
                   THEN <<Call("close", 0, "raise", env.closeMsg)>>
                   ELSE <<Call("close", 0, "ok", Empty)>>
              ELSE <<>>))

\* the marker appended to the reply as it came, untrimmed
PostProcess_untrimmed(reply) ==
  LET answer == IF reply # Empty THEN Cat(reply, Cat(Nl(2), Marker))
                ELSE reply
  IN Strip(answer)

\* the reply text to the returned answer
PostProcess(reply) ==
  LET answer == IF reply # Empty
                THEN Cat(Strip(reply), Cat(Nl(2), Marker))
                ELSE reply
  IN Strip(answer)

generate_answer(st, env) ==
  IF env.ctor = "raise"
  THEN GenerateExcept(st, env, env.ctorMsg, FALSE, 0,
                      <<Call("Client", 0, "raise", env.ctorMsg)>>)
  ELSE LET ctorCall == <<Call("Client", 0, "ok", ClientObject(env))>> IN
  IF env.chat.kind = "raise"
  THEN GenerateExcept(st, env, env.chat.text, TRUE, 0,
                      ctorCall \o <<Call("chat", 0, "raise", env.chat.text)>>)
  ELSE LET chatCall == IF env.chat.kind = "malformed"
                       THEN <<Call("chat", 0, "malformed", Empty)>>
                       ELSE <<Call("chat", 0, "ok", env.chat.text)>>
       IN
  IF env.hasClose /\ env.close[1]
  THEN GenerateExcept(st, env, env.closeMsg, TRUE, 1,
                      ctorCall \o chatCall
                      \o <<Call("close", 0, "raise", env.closeMsg)>>)
  ELSE LET closeCall == IF env.hasClose
                        THEN <<Call("close", 0, "ok", Empty)>>
                        ELSE <<>>
       IN
  IF env.chat.kind = "malformed"
  THEN GenerateExcept(st, env, env.chat.text, TRUE,
                      IF env.hasClose THEN 1 ELSE 0,
                      ctorCall \o chatCall \o closeCall
                      \o <<Call("content", 0, "raise", env.chat.text)>>)
  ELSE Ran([st EXCEPT !.answer = PostProcess(env.chat.text),
                      !.error = None],
           ctorCall \o chatCall \o closeCall
           \o <<Call("content", 0, "ok", env.chat.text)>>)

(***************************************************************************)
(* handle_error.                                                           *)
(***************************************************************************)
UnknownError == W("Unknown error", 13)
FallbackIntro ==
  W("I ran into an issue while processing the request. Please try again or provide a more specific PyAnsys question. Details:", 120)
  \o Sp(1)

\* a handler that builds its state anew and keeps only the error
handle_error_rebuilt(st) ==
  LET error == IF Truthy(st.error) THEN st.error.val ELSE UnknownError
  IN Ran([InitialState(st.query, st.num_results) EXCEPT
            !.error = st.error,
            !.answer = Cat(FallbackIntro, Cat(error, Cat(Nl(2), Marker)))],
         <<>>)

\* a handler that clears the error it has reported
handle_error_clears(st) ==
  LET error == IF Truthy(st.error) THEN st.error.val ELSE UnknownError
  IN Ran([st EXCEPT !.error = None,
                    !.answer =
                      Cat(FallbackIntro, Cat(error, Cat(Nl(2), Marker)))],
         <<>>)

\* a handler that reads the error from a key the state does not have
handle_error_wrongkey(st) ==
  Ran([st EXCEPT !.answer =
         Cat(FallbackIntro, Cat(UnknownError, Cat(Nl(2), Marker)))],
      <<>>)

handle_error(st) ==
  LET error == IF Truthy(st.error) THEN st.error.val ELSE UnknownError
  IN Ran([st EXCEPT !.answer =
                      Cat(FallbackIntro, Cat(error, Cat(Nl(2), Marker)))],
         <<>>)

(***************************************************************************)
(* The graph of build_graph: _route_after_node after each of the three     *)
(* stages, an unconditional edge from handle_error to END.                 *)
(***************************************************************************)
Stages == {"search_web", "fetch_sources", "generate_answer"}

\* a routing that never takes the error edge
route_always_continue(st) == "continue"

route_after_node(st) == IF Truthy(st.error) THEN "handle_error" ELSE "continue"

\* a graph whose search_web node is wired straight to generate_answer
NextNode_nofetch(node, st) ==
  IF node = "handle_error" THEN "END"
  ELSE IF route_after_node(st) = "handle_error" THEN "handle_error"
  ELSE CASE node = "search_web" -> "generate_answer"
         [] node = "fetch_sources" -> "generate_answer"
         [] node = "generate_answer" -> "END"

NextNode(node, st) ==
  IF node = "handle_error" THEN "END"
  ELSE IF route_after_node(st) = "handle_error" THEN "handle_error"
  ELSE CASE node = "search_web" -> "fetch_sources"
         [] node = "fetch_sources" -> "generate_answer"
         [] node = "generate_answer" -> "END"

\* a stream that yields the stages only
Emit_stages(m, evs, node, out) ==
  IF m = "stream" /\ node \in Stages
  THEN Append(evs, [node |-> node, state |-> out])
  ELSE evs

\* _APP.stream yields one {node: output} per node run; _APP.invoke yields
\* nothing and returns the last state
Emit(m, evs, node, out) ==
  IF m = "stream" THEN Append(evs, [node |-> node, state |-> out]) ELSE evs

\* what the caller holds when the run is over: the state invoke returns, or
\* the state of the last event as main keeps it in final_state
FinalState ==
  IF mode = "stream" THEN events[Len(events)].state ELSE state

(***************************************************************************)
(* main of cli.py: one turn of the loop prints the query, one status line  *)
(* per event of run_stream, then the answer and the sources of the last    *)
(* event's state.  A printed line is a text.                               *)
(***************************************************************************)
\* num_results=5 in main
CliNumResults == 5

QueryLine(query) == Cat(W("Query:", 6), Cat(Sp(1), query))

StatusLine(node) ==
  CASE node = "search_web" -> W("Search complete.", 16)
    [] node = "fetch_sources" -> W("Fetch complete.", 15)
    [] node = "generate_answer" -> W("Generate complete.", 18)
    [] node = "handle_error" -> W("Handled error.", 14)

NoAnswer == W("No answer generated.", 20)

\* the answer printed whatever it is
AnswerLines_always(final_state) ==
  <<Nl(1) \o W("Answer:", 7) \o Nl(1)>> \o <<Strip(final_state.answer)>>

\* lines 53-59: the answer, or "No answer generated." when it is blank
AnswerLines(final_state) ==
  LET answer == Strip(final_state.answer) IN
  <<Nl(1) \o W("Answer:", 7) \o Nl(1)>>
  \o (IF answer # Empty THEN <<answer>> ELSE <<NoAnswer>>)

\* f"{i}. {title} - {url}"
SourceLine(i, src) ==
  Cat(W(ToString(i), 1),
      Cat(W(".", 1),
          Cat(Sp(1),
              Cat(Or(Strip(src.title), W("(untitled)", 10)),
                  Cat(Sp(1) \o W("-", 1) \o Sp(1),
                      Or(Strip(src.url), W("(no url)", 8)))))))

\* _print_sources
print_sources(final_state) ==
  LET sources == final_state.fetched_sources IN
  IF sources = <<>> THEN <<W("Sources: none", 13)>>
  ELSE <<W("Sources:", 8)>>
       \o [i \in 1..Len(sources) |-> SourceLine(i, sources[i])]

\* lines 49-62: what main prints once the stream is over
ResultLines(evs) ==
  IF evs = <<>> THEN <<W("No output.", 10)>>
  ELSE LET final_state == evs[Len(evs)].state
       IN AnswerLines(final_state) \o <<Empty>> \o print_sources(final_state)

(***************************************************************************)
(* The inputs: the caller's arguments and what the collaborators answer.   *)
(***************************************************************************)
Queries ==
  {Cat(Spell(<<"A", "N", "S", "Y", "S">>), Cat(Sp(1), W("license error", 13))),
   W("mesh fails", 10)}

NumResults == {1, 5}

Modes == {"invoke", "stream"}

\* provider items: the usual keys, the alternate keys with no url, no keys
RawItems ==
  {[title |-> W("Docs", 4), heading |-> Empty,
    href |-> W("https://a", 9), url |-> Empty,
    body |-> W("Check license server.", 21), snippet |-> Empty],
   [title |-> Empty, heading |-> W("Forum", 5),
    href |-> Empty, url |-> Empty,
    body |-> Empty, snippet |-> W("Reinstall.", 10)],
   [title |-> Empty, heading |-> Empty,
    href |-> Empty, url |-> W("https://b", 9),
    body |-> Empty, snippet |-> Empty]}

RawLists == UNION {[1..n -> RawItems] : n \in 0..MaxResults}

SearchResponses ==
  {[raised |-> TRUE, msg |-> W("timeout", 7), items |-> <<>>]}
  \cup {[raised |-> FALSE, msg |-> Empty, items |-> l] : l \in RawLists}

Page == W("<html>", 6)

GetResponses ==
  {[exc |-> "none", status |-> 200, text |-> Empty, msg |-> Empty],
   [exc |-> "none", status |-> 400, text |-> Page, msg |-> Empty],
   [exc |-> "request", status |-> 0, text |-> Empty, msg |-> Empty],
   [exc |-> "other", status |-> 0, text |-> Empty, msg |-> W("bad url", 7)]}

GetPage == [exc |-> "none", status |-> 200, text |-> Page, msg |-> Empty]

\* extracted texts around the threshold, padded with whitespace
ExtractResponses ==
  {[kind |-> "raise", text |-> W("parse error", 11)],
   [kind |-> "none", text |-> Empty],
   [kind |-> "text", text |-> Empty],
   [kind |-> "text",
    text |-> Sp(1) \o Ch("x", MinContentLen - 1) \o Nl(1)],
   [kind |-> "text",
    text |-> Sp(2) \o Ch("x", MinContentLen) \o Nl(1)]}

NoExtract == [kind |-> "none", text |-> Empty]

\* per search result: a fetch that yields no page, or a page and an extraction
EntryEnvs ==
  {[get |-> g, ext |-> NoExtract] : g \in GetResponses}
  \cup {[get |-> GetPage, ext |-> e] : e \in ExtractResponses}

FetchEnvs == [1..FetchCap -> EntryEnvs]

Replies ==
  {Empty, Sp(2), Sp(1) \o W("Restart the solver.", 19) \o Nl(1)}

ChatResponses ==
  {[kind |-> "raise", text |-> W("connection refused", 18)],
   [kind |-> "malformed", text |-> W("no attribute 'get'", 18)]}
  \cup {[kind |-> "reply", text |-> r] : r \in Replies}

NoClose == [j \in 1..2 |-> FALSE]

GenerateEnvs ==
  {[ctor |-> "raise", ctorMsg |-> W("no host", 7), hasClose |-> FALSE,
    chat |-> [kind |-> "raise", text |-> Empty], close |-> NoClose,
    closeMsg |-> Empty]}
  \cup {[ctor |-> "ok", ctorMsg |-> Empty, hasClose |-> FALSE, chat |-> c,
         close |-> NoClose, closeMsg |-> Empty] : c \in ChatResponses}
  \cup {[ctor |-> "ok", ctorMsg |-> Empty, hasClose |-> TRUE, chat |-> c,
         close |-> cl, closeMsg |-> W("close failed", 12)] :
        c \in ChatResponses, cl \in [1..2 -> BOOLEAN]}

(***************************************************************************)
(* The run of one query: run / run_stream build the state, the graph runs  *)
(* its nodes one after another, the caller takes the result.               *)
(***************************************************************************)
Init ==
  /\ pc = "idle"
  /\ mode = "invoke"
  /\ state = InitialState(Empty, 0)
  /\ executed = <<>>
  /\ events = <<>>
  /\ calls = <<>>
  /\ printed = <<>>

\* a state record kept from one run to the next
RunState_reused(query, num_results) ==
  [state EXCEPT !.query = query, !.num_results = num_results]

\* state: RAGState = {...} in run and run_stream
RunState(query, num_results) == InitialState(query, num_results)

\* the state of the model when a run starts: nothing of an earlier run
Begin(q, n, m) ==
  /\ mode' = m
  /\ state' = RunState(q, n)
  /\ pc' = "search_web"
  /\ executed' = <<>>
  /\ events' = <<>>
  /\ calls' = <<>>
  /\ printed' = IF m = "stream" THEN <<QueryLine(q)>> ELSE <<>>

\* run(query, num_results), or a turn of main: run_stream(query, 5)
Start ==
  /\ pc = "idle"
  /\ \/ \E q \in Queries, n \in NumResults : Begin(q, n, "invoke")
     \/ \E q \in Queries : Begin(q, CliNumResults, "stream")

\* a node has run: the graph takes the state it returned and follows the
\* edge out of it; an exception leaving the node leaves the run.  In a turn
\* of main the event is printed as it comes.
Step(node, r) ==
  /\ state' = r.out
  /\ executed' = Append(executed, [node |-> node, state |-> r.out])
  /\ events' = IF r.raised THEN events ELSE Emit(mode, events, node, r.out)
  /\ calls' = calls \o r.log
  /\ pc' = IF r.raised THEN "raised" ELSE NextNode(node, r.out)
  /\ printed' = IF mode = "stream" /\ ~r.raised
                THEN Append(printed, StatusLine(node))
                ELSE printed
  /\ UNCHANGED mode

SearchWeb ==
  /\ pc = "search_web"
  /\ \E resp \in SearchResponses : Step("search_web", search_web(state, resp))

FetchSources ==
  /\ pc = "fetch_sources"
  /\ \E env \in FetchEnvs : Step("fetch_sources", fetch_sources(state, env))

GenerateAnswer ==
  /\ pc = "generate_answer"
  /\ \E env \in GenerateEnvs :
       Step("generate_answer", generate_answer(state, env))

HandleError ==
  /\ pc = "handle_error"
  /\ Step("handle_error", handle_error(state))

\* the run is over: run returns the state to its caller, main prints the
\* result and goes back to its prompt.  What the run left stays until the
\* next one starts.
Return ==
  /\ pc = "END"
  /\ pc' = "idle"
  /\ printed' = IF mode = "stream" THEN printed \o ResultLines(events)
                ELSE printed
  /\ UNCHANGED <<mode, state, executed, events, calls>>

Next ==
  \/ Start
  \/ SearchWeb
  \/ FetchSources
  \/ GenerateAnswer
  \/ HandleError
  \/ Return

Spec == Init /\ [][Next]_vars

(***************************************************************************)
(* search_web alone, on queries with and without the keywords, in several  *)
(* letter cases, bare and padded with up to MaxPad blanks on each side.    *)
(***************************************************************************)
MaxPad == 2

Pad(n) == IF n = 0 THEN Empty ELSE Sp(n)

QueryBodies ==
  {Empty,
   Spell(<<"a", "n", "s", "y", "s">>),
   Spell(<<"A", "N", "S", "Y", "S">>),
   Spell(<<"P", "y", "A", "n", "s", "y", "s">>),
   Spell(<<"p", "y", "a", "n", "s", "y", "s">>),
   Spell(<<"A", "n", "s", "y">>),
   Spell(<<"a", "n", " ", "s", "y", "s">>),
   Spell(<<"x", "A", "n", "S", "y", "S", "x">>),
   Cat(W("my", 2), Cat(Sp(1), Cat(Spell(<<"A", "n", "s", "y", "s">>),
                                  Cat(Sp(1), W("crashes", 7))))),
   Cat(W("mesh", 4), Cat(Nl(1), W("fails", 5))),
   W("mesh fails", 10),
   Nl(1)}

AugQueries ==
  {Cat(Pad(l), Cat(b, Pad(r))) : l \in 0..MaxPad, r \in 0..MaxPad,
                                b \in QueryBodies}

AugInit ==
  /\ pc = "search_web"
  /\ mode = "invoke"
  /\ state \in {RunState(q, CliNumResults) : q \in AugQueries}
  /\ executed = <<>>
  /\ events = <<>>
  /\ calls = <<>>
  /\ printed = <<>>

AugNext == SearchWeb

AugSpec == AugInit /\ [][AugNext]_vars

(***************************************************************************)
(* What the run has done so far, read from executed and calls.             *)
(***************************************************************************)
\* the stage that makes a call
Owner(op) ==
  CASE op = "search" -> "search_web"
    [] op \in {"get", "extract"} -> "fetch_sources"
    [] OTHER -> "generate_answer"

CallsOf(S) == SelectSeq(calls, LAMBDA c : Owner(c.op) = S)

RaisesOf(S) == SelectSeq(CallsOf(S), LAMBDA c : c.res = "raise")

FailedPrefix(S) ==
  CASE S = "search_web" -> SearchFailed
    [] S = "fetch_sources" -> FetchFailed
    [] S = "generate_answer" -> GenerateFailed

Ran_(node) == \E i \in 1..Len(executed) : executed[i].node = node

\* the state node returned (node has run)
OutOf(node) ==
  executed[CHOOSE i \in 1..Len(executed) : executed[i].node = node].state

\* C1: first error wins: once a stage has returned a state whose error is
\* truthy, the node run next is handle_error and no stage runs afterwards.
C1_FirstErrorWins ==
  \A i \in 1..Len(executed) :
    (executed[i].node \in Stages /\ Truthy(executed[i].state.error)) =>
      /\ pc \notin Stages
      /\ i = Len(executed) => pc = "handle_error"
      /\ i < Len(executed) =>
           /\ executed[i + 1].node = "handle_error"
           /\ \A j \in (i + 1)..Len(executed) : executed[j].node \notin Stages

\* a fetch_sources failure was followed by handle_error and the end of the run
C1_Witness ==
  /\ pc = "END"
  /\ mode = "stream"
  /\ Len(executed) = 3
  /\ executed[2].node = "fetch_sources"
  /\ Truthy(executed[2].state.error)
  /\ executed[3].node = "handle_error"

\* C2: when a collaborator called inside a stage raises, no exception leaves
\* the stage; it returns a state whose error is "<stage> failed: " followed
\* by the message of the exception that reached the stage's except branch
\* (the first one raised in the stage).
C2_StageCatches ==
  /\ pc # "raised"
  /\ \A S \in Stages :
       (Ran_(S) /\ RaisesOf(S) # <<>>) =>
         /\ OutOf(S).error.some
         /\ StartsWith(OutOf(S).error.val, FailedPrefix(S))
         /\ OutOf(S).error.val = Cat(FailedPrefix(S), RaisesOf(S)[1].val)

\* chat raised and then the release raised too, inside generate_answer
C2_Witness ==
  /\ Ran_("generate_answer")
  /\ Len(RaisesOf("generate_answer")) = 2
  /\ RaisesOf("generate_answer")[1].op = "chat"
  /\ RaisesOf("generate_answer")[2].op = "close"
  /\ Ran_("fetch_sources")
  /\ pc = "handle_error"

\* some stage of the run has set error
SomeStageFailed ==
  \E i \in 1..Len(executed) :
    executed[i].node \in Stages /\ executed[i].state.error.some

StageError ==
  executed[CHOOSE i \in 1..Len(executed) :
             executed[i].node \in Stages /\ executed[i].state.error.some]
    .state.error.val

\* C3: in a run in which a stage set error, the state the caller gets has a
\* non-empty answer that contains that error string and ends with
\* "This is the fix."; handle_error raises nothing.
C3_ErrorAnswer ==
  /\ (Ran_("handle_error") => pc # "raised")
  /\ (pc = "END" /\ SomeStageFailed) =>
       /\ FinalState.answer # Empty
       /\ Contains(FinalState.answer, StageError)
       /\ EndsWith(FinalState.answer, Marker)

\* the search raised "timeout" and the run is over
C3_Witness ==
  /\ pc = "END"
  /\ SomeStageFailed
  /\ StageError = Cat(SearchFailed, W("timeout", 7))
  /\ Contains(FinalState.answer, W("timeout", 7))

\* C4: in streaming mode the events are the executed nodes: one event per
\* node run, with the node's name and the state it returned, in the order
\* the nodes ran, and none for a node that did not run.
C4_StreamEvents ==
  mode = "stream" =>
    /\ Len(events) = Len(executed)
    /\ \A i \in 1..Len(executed) :
         /\ events[i].node = executed[i].node
         /\ events[i].state = executed[i].state

\* a streamed run that skipped generate_answer: three events, none for it
C4_Witness ==
  /\ mode = "stream"
  /\ pc = "END"
  /\ Len(events) = 3
  /\ events[3].node = "handle_error"
  /\ \A i \in 1..Len(events) : events[i].node # "generate_answer"

\* the client exists and has a close operation
ClientCreated ==
  \E i \in 1..Len(calls) : calls[i].op = "Client" /\ calls[i].res = "ok"

ClientHasClose ==
  \E i \in 1..Len(calls) :
    calls[i].op = "Client" /\ calls[i].res = "ok" /\ calls[i].val # Empty

CloseCalls == SelectSeq(calls, LAMBDA c : c.op = "close")

ChatCall == SelectSeq(calls, LAMBDA c : c.op = "chat")

\* C5: when generate_answer returns and the client was created, close has
\* been called at least once, whether the chat call replied, raised or gave
\* a malformed response.
C5_ClientReleased ==
  (Ran_("generate_answer") /\ ClientCreated /\ ClientHasClose) =>
    Len(CloseCalls) >= 1

\* the chat call raised and the client was released in the except branch
C5_Witness ==
  /\ Ran_("generate_answer")
  /\ ClientCreated
  /\ Len(ChatCall) = 1
  /\ ChatCall[1].res = "raise"
  /\ Len(CloseCalls) = 1

\* the search results fetch_sources was given, and the calls made for the
\* k-th of them
FetchInput == OutOf("search_web").search_results

GetCalls(k) == SelectSeq(calls, LAMBDA c : c.op = "get" /\ c.arg = k)

ExtractCalls(k) == SelectSeq(calls, LAMBDA c : c.op = "extract" /\ c.arg = k)

FetchSucceeded ==
  Ran_("fetch_sources") /\ ~OutOf("fetch_sources").error.some

\* C6: fetch_sources processes the first 2 search results only: no call is
\* made for a later one, and when it succeeds fetched_sources has
\* min(2, len(search_results)) records, the i-th with the title and url of
\* the i-th search result.
C6_FirstTwoOnly ==
  Ran_("fetch_sources") =>
    /\ \A i \in 1..Len(calls) : calls[i].arg <= 2
    /\ FetchSucceeded =>
         LET fs == OutOf("fetch_sources").fetched_sources IN
         /\ Len(fs) = Min(2, Len(FetchInput))
         /\ \A i \in 1..Len(fs) :
              /\ fs[i].title = FetchInput[i].title
              /\ fs[i].url = FetchInput[i].url

\* three search results, num_results 5, two sources fetched
C6_Witness ==
  /\ FetchSucceeded
  /\ Len(FetchInput) = 3
  /\ state.num_results = 5
  /\ Len(OutOf("fetch_sources").fetched_sources) = 2
  /\ FetchInput[1].url # FetchInput[2].url

\* the page of result k was retrieved and extraction gave a text whose
\* trimmed length is at least 200
PageTextLongEnough(k) ==
  /\ Len(GetCalls(k)) = 1
  /\ GetCalls(k)[1].res = "text"
  /\ Len(ExtractCalls(k)) = 1
  /\ ExtractCalls(k)[1].res = "text"
  /\ StrLen(Strip(ExtractCalls(k)[1].val)) >= 200

\* C7: for a processed search result with a url, the source has
\* from_snippet "false" and the trimmed extracted text as content exactly
\* when the page was retrieved, extraction returned text and the trimmed
\* length is at least 200; otherwise from_snippet "true" and the snippet.
C7_ContentOrSnippet ==
  FetchSucceeded =>
    LET fs == OutOf("fetch_sources").fetched_sources IN
    \A k \in 1..Len(fs) :
      FetchInput[k].url # Empty =>
        IF PageTextLongEnough(k)
        THEN /\ fs[k].from_snippet = "false"
             /\ fs[k].content = Strip(ExtractCalls(k)[1].val)
        ELSE /\ fs[k].from_snippet = "true"
             /\ fs[k].content = FetchInput[k].snippet

\* a padded text of trimmed length 199 fell back to the snippet and a padded
\* text of trimmed length 200 was kept, trimmed
C7_Witness ==
  /\ FetchSucceeded
  /\ Len(OutOf("fetch_sources").fetched_sources) = 2
  /\ Len(ExtractCalls(1)) = 1
  /\ Len(ExtractCalls(2)) = 1
  /\ ExtractCalls(1)[1].res = "text"
  /\ StrLen(ExtractCalls(1)[1].val) > 200
  /\ StrLen(Strip(ExtractCalls(1)[1].val)) = 199
  /\ OutOf("fetch_sources").fetched_sources[1].from_snippet = "true"
  /\ StrLen(ExtractCalls(2)[1].val) > 200
  /\ StrLen(Strip(ExtractCalls(2)[1].val)) = 200
  /\ OutOf("fetch_sources").fetched_sources[2].from_snippet = "false"
  /\ StrLen(OutOf("fetch_sources").fetched_sources[2].content) = 200

\* C8: for a processed search result with an empty url no fetch and no
\* extraction call is made, and its source has from_snippet "true" and the
\* snippet as content.
C8_EmptyUrlNoFetch ==
  Ran_("fetch_sources") =>
    \A k \in 1..Min(2, Len(FetchInput)) :
      FetchInput[k].url = Empty =>
        /\ GetCalls(k) = <<>>
        /\ ExtractCalls(k) = <<>>
        /\ FetchSucceeded =>
             LET fs == OutOf("fetch_sources").fetched_sources IN
             /\ fs[k].from_snippet = "true"
             /\ fs[k].content = FetchInput[k].snippet

\* the second result has no url; the first was fetched, the second was not
C8_Witness ==
  /\ FetchSucceeded
  /\ Len(FetchInput) >= 2
  /\ FetchInput[1].url # Empty
  /\ FetchInput[2].url = Empty
  /\ FetchInput[2].snippet # Empty
  /\ Len(GetCalls(1)) = 1
  /\ GetCalls(2) = <<>>
  /\ OutOf("fetch_sources").fetched_sources[2].content = FetchInput[2].snippet

\* C9: when search_results is empty, fetch_sources makes no fetch and no
\* extraction call, returns fetched_sources empty and error
\* "No sources fetched.", and the run goes to handle_error without running
\* generate_answer.
C9_NoSources ==
  (Ran_("fetch_sources") /\ FetchInput = <<>>) =>
    /\ CallsOf("fetch_sources") = <<>>
    /\ OutOf("fetch_sources").fetched_sources = <<>>
    /\ OutOf("fetch_sources").error = Some(W("No sources fetched.", 19))
    /\ ~Ran_("generate_answer")
    /\ pc \in {"handle_error", "END", "idle"}
    /\ pc \in {"END", "idle"} => executed[Len(executed)].node = "handle_error"

\* the search returned nothing and the run ended through handle_error
C9_Witness ==
  /\ Ran_("fetch_sources")
  /\ FetchInput = <<>>
  /\ pc = "END"
  /\ Len(executed) = 3
  /\ FinalState.error = Some(NoSources)

\* C10: after each stage either error is none and the stage's own field is
\* set (one search record per item returned, at least one fetched source,
\* the answer made from the reply), or error is set and the fields of the
\* later stages still hold their initial empty values.
C10_AdvanceOrFail ==
  /\ Ran_("search_web") =>
       LET st == OutOf("search_web") IN
       IF ~st.error.some
       THEN Len(st.search_results) = Len(CallsOf("search_web")[1].val)
       ELSE st.fetched_sources = <<>> /\ st.answer = Empty
  /\ Ran_("fetch_sources") =>
       LET st == OutOf("fetch_sources") IN
       IF ~st.error.some
       THEN st.fetched_sources # <<>>
       ELSE st.answer = Empty
  /\ Ran_("generate_answer") =>
       LET st == OutOf("generate_answer") IN
       IF ~st.error.some
       THEN LET c == CallsOf("generate_answer")
            IN c[Len(c)].op = "content" /\ c[Len(c)].res = "ok"
               /\ (c[Len(c)].val = Empty <=> st.answer = Empty)
       ELSE st.answer = Empty

\* fetch_sources failed on the second result after the first was processed
C10_Witness ==
  /\ Ran_("fetch_sources")
  /\ OutOf("fetch_sources").error.some
  /\ Len(CallsOf("fetch_sources")) >= 2
  /\ Len(GetCalls(1)) = 1
  /\ Len(GetCalls(2)) = 1
  /\ GetCalls(2)[1].res = "raise"
  /\ OutOf("fetch_sources").fetched_sources = <<>>

(***************************************************************************)
(* The empty reply, the marker, the snippet fallback.                      *)
(***************************************************************************)
ContentCall == SelectSeq(calls, LAMBDA c : c.op = "content")

\* the model replied with text r and generate_answer read it
Replied == Ran_("generate_answer") /\ ContentCall # <<>>
           /\ ContentCall[1].res = "ok"

Reply == ContentCall[1].val

\* C11: when the model reply is the empty string, generate_answer returns
\* answer "" with error none, the run ends without handle_error, and main
\* prints "No answer generated."; the empty reply is never an error.
C11_EmptyReply ==
  (Replied /\ Reply = Empty) =>
    /\ OutOf("generate_answer").answer = Empty
    /\ OutOf("generate_answer").error = None
    /\ ~Ran_("handle_error")
    /\ pc \in {"END", "idle"}
    /\ (pc = "idle" /\ mode = "stream") =>
         /\ \E i \in 1..Len(printed) : printed[i] = W("No answer generated.", 20)
         /\ \A i \in 1..Len(printed) : printed[i] # W("Handled error.", 14)

\* a turn of main ended on an empty reply
C11_Witness ==
  /\ Replied
  /\ Reply = Empty
  /\ pc = "idle"
  /\ mode = "stream"
  /\ printed[4] = W("Generate complete.", 18)
  /\ printed[6] = NoAnswer
  /\ printed[8] = W("Sources:", 8)

\* C12 as stated: for every non-empty reply r, whitespace-only included, the
\* answer is r trimmed followed by "\n\nThis is the fix.".
C12_AsClaimed ==
  (Replied /\ Reply # Empty) =>
    /\ OutOf("generate_answer").error = None
    /\ OutOf("generate_answer").answer
         = Strip(Reply) \o Nl(2) \o W("This is the fix.", 16)

\* C12: for every non-empty reply r, generate_answer returns error none and
\* the answer is r trimmed followed by "\n\nThis is the fix." when r holds
\* more than whitespace, and "This is the fix." alone when r is whitespace.
C12_MarkerAppended ==
  (Replied /\ Reply # Empty) =>
    /\ OutOf("generate_answer").error = None
    /\ OutOf("generate_answer").answer
         = IF Strip(Reply) # Empty
           THEN Strip(Reply) \o Nl(2) \o W("This is the fix.", 16)
           ELSE W("This is the fix.", 16)

\* a padded reply gave the trimmed reply and the marker
C12_Witness ==
  /\ Replied
  /\ Reply = Sp(1) \o W("Restart the solver.", 19) \o Nl(1)
  /\ OutOf("generate_answer").answer
       = W("Restart the solver.", 19) \o Nl(2) \o W("This is the fix.", 16)

HasMetadata(rec) ==
  rec.title # Empty \/ rec.url # Empty \/ rec.snippet # Empty

\* C13 as stated: a source built from a search record with a non-empty
\* title, url or snippet has non-empty content.
C13_AsClaimed ==
  FetchSucceeded =>
    LET fs == OutOf("fetch_sources").fetched_sources IN
    \A k \in 1..Len(fs) : HasMetadata(FetchInput[k]) => fs[k].content # Empty

\* C13: a source built from a search record with a non-empty snippet has
\* non-empty content, whatever the fetch and the extraction return.
C13_SnippetFallback ==
  FetchSucceeded =>
    LET fs == OutOf("fetch_sources").fetched_sources IN
    \A k \in 1..Len(fs) :
      FetchInput[k].snippet # Empty => fs[k].content # Empty

\* extraction gave the empty text for a record with a snippet
C13_Witness ==
  /\ FetchSucceeded
  /\ FetchInput[1].snippet # Empty
  /\ Len(ExtractCalls(1)) = 1
  /\ ExtractCalls(1)[1].res = "text"
  /\ ExtractCalls(1)[1].val = Empty
  /\ OutOf("fetch_sources").fetched_sources[1].content = FetchInput[1].snippet

(***************************************************************************)
(* handle_error's frame, the independence of runs, the query sent.         *)
(***************************************************************************)
HandledAt == CHOOSE i \in 1..Len(executed) : executed[i].node = "handle_error"

\* C14: handle_error changes only answer: the state it returns has the error,
\* query, num_results, search_results and fetched_sources of the state it
\* was given, and the run is then over.
C14_HandleErrorFrame ==
  Ran_("handle_error") =>
    LET before == executed[HandledAt - 1].state
        after == executed[HandledAt].state
    IN /\ after.error = before.error
       /\ after.error.some
       /\ after.query = before.query
       /\ after.num_results = before.num_results
       /\ after.search_results = before.search_results
       /\ after.fetched_sources = before.fetched_sources
       /\ HandledAt = Len(executed)
       /\ pc \in {"END", "idle"}

\* generate_answer failed with two sources fetched; handle_error kept them
C14_Witness ==
  /\ Ran_("handle_error")
  /\ Len(executed) = 4
  /\ Len(executed[4].state.fetched_sources) = 2
  /\ Len(executed[4].state.search_results) = 3
  /\ executed[4].state.answer # Empty
  /\ executed[3].state.answer = Empty
  /\ pc = "END"

\* C15: every run starts from a fresh state, whatever the run before it left:
\* search_results, fetched_sources and answer empty, error none, nothing
\* executed, emitted or called, only its own query printed.  What a run does
\* from there is decided by this state and the collaborators' answers alone.
C15_FreshRun ==
  [][(pc = "idle" /\ pc' # "idle") =>
       /\ pc' = "search_web"
       /\ state'.search_results = <<>>
       /\ state'.fetched_sources = <<>>
       /\ state'.answer = Empty
       /\ state'.error = None
       /\ executed' = <<>>
       /\ events' = <<>>
       /\ calls' = <<>>
       /\ printed' \in {<<>>, <<QueryLine(state'.query)>>}]_vars

\* a run is over and has left an error, an answer and sources behind; the
\* next run starts from here
C15_Witness ==
  /\ pc = "idle"
  /\ Len(executed) = 4
  /\ state.error.some
  /\ state.answer # Empty
  /\ state.fetched_sources # <<>>
  /\ calls # <<>>
  /\ printed # <<>>

\* the query the search was called with
Sent == calls[1].req

HasKeyword(q) ==
  \/ Contains(Lower(q), Spell(<<"p", "y", "a", "n", "s", "y", "s">>))
  \/ Contains(Lower(q), Spell(<<"a", "n", "s", "y", "s">>))

Blank(q) == Strip(q) = Empty

PyAnsysSpace == Spell(<<"P", "y", "A", "n", "s", "y", "s">>) \o Sp(1)

\* C16 as stated: the query sent is q itself when q holds a keyword in any
\* letter case or is blank, and "PyAnsys " followed by q otherwise.
C16_AsClaimed ==
  Ran_("search_web") =>
    Sent = IF HasKeyword(state.query) \/ Blank(state.query)
           THEN state.query
           ELSE Cat(PyAnsysSpace, state.query)

\* C16: the query sent is q trimmed when q holds "pyansys" or "ansys" in any
\* letter case or is blank, and "PyAnsys " followed by q trimmed otherwise.
C16_AugmentTrimmed ==
  Ran_("search_web") =>
    Sent = IF HasKeyword(state.query) \/ Blank(state.query)
           THEN Strip(state.query)
           ELSE Cat(PyAnsysSpace, Strip(state.query))

\* a padded upper-case keyword was sent trimmed and without prefix
C16_Witness ==
  /\ Ran_("search_web")
  /\ state.query = Sp(2) \o Spell(<<"A", "N", "S", "Y", "S">>) \o Sp(1)
  /\ Sent = Spell(<<"A", "N", "S", "Y", "S">>)

(***************************************************************************)
(* The release and the reply, the paths of the graph, the order of calls.  *)
(***************************************************************************)
ChatReplied == Ran_("generate_answer") /\ ChatCall # <<>> /\ ChatCall[1].res = "ok"

ChatRaised ==
  Ran_("generate_answer") /\ ChatCall # <<>> /\ ChatCall[1].res = "raise"

\* C17: the outcome of generate_answer does not depend on the release: no
\* exception leaves the stage, after a chat call that replied the state has
\* error none and the answer made from the reply, and after a chat call that
\* raised the error carries the message of the chat failure.
C17_ReleaseHarmless ==
  /\ pc # "raised"
  /\ ChatReplied =>
       /\ OutOf("generate_answer").error = None
       /\ (OutOf("generate_answer").answer = Empty <=> ChatCall[1].val = Empty)
  /\ ChatRaised =>
       OutOf("generate_answer").error
         = Some(W("generate_answer failed:", 23) \o Sp(1) \o ChatCall[1].val)

NodeNames == Stages \cup {"handle_error"}

NodeSeq == [i \in 1..Len(executed) |-> executed[i].node]

Paths ==
  {<<"search_web", "handle_error">>,
   <<"search_web", "fetch_sources", "handle_error">>,
   <<"search_web", "fetch_sources", "generate_answer", "handle_error">>,
   <<"search_web", "fetch_sources", "generate_answer">>}

IsPrefix(s, t) == Len(s) <= Len(t) /\ SubSeq(t, 1, Len(s)) = s

\* C18: every run terminates: a run is always at a node, whose step needs
\* only that its external calls return or raise, or at its end; it takes at
\* most four steps and no node runs twice; what has run is the start of one
\* of the four paths, a finished run has run exactly one of them, and
\* handle_error is followed by the end.
C18_RunTerminates ==
  /\ pc # "raised"
  /\ pc \in NodeNames \cup {"END", "idle"}
  /\ Len(executed) <= Cardinality(NodeNames)
  /\ \E p \in Paths : IsPrefix(NodeSeq, p)
  /\ \A i, j \in 1..Len(executed) : NodeSeq[i] = NodeSeq[j] => i = j
  /\ pc = "END" => NodeSeq \in Paths
  /\ (pc = "idle" /\ executed # <<>>) => NodeSeq \in Paths
  /\ Ran_("handle_error") => pc \in {"END", "idle"}

\* a run that went through all four nodes is over
C18_Witness ==
  /\ pc = "END"
  /\ NodeSeq = <<"search_web", "fetch_sources", "generate_answer",
                 "handle_error">>

Positions(op) == {i \in 1..Len(calls) : calls[i].op = op}

\* C19: the search is called once, before any fetch; at most 2 fetches are
\* made, in the order of the search results; an extraction comes right after
\* the fetch of the same result, which returned page text; the chat is
\* called at most once, after fetch_sources returned at least one source
\* with error none, and no search, fetch or extraction comes after it.
C19_CallOrder ==
  /\ Cardinality(Positions("search")) <= 1
  /\ Ran_("search_web") => Positions("search") = {1}
  /\ Cardinality(Positions("get")) <= 2
  /\ \A i, j \in Positions("get") : i < j => calls[i].arg < calls[j].arg
  /\ \A i \in Positions("extract") :
       /\ i - 1 \in Positions("get")
       /\ calls[i - 1].arg = calls[i].arg
       /\ calls[i - 1].res = "text"
  /\ Cardinality(Positions("chat")) <= 1
  /\ \A i \in Positions("chat") :
       /\ FetchSucceeded
       /\ Len(OutOf("fetch_sources").fetched_sources) >= 1
       /\ \A j \in (i + 1)..Len(calls) :
            calls[j].op \notin {"search", "get", "extract"}

\* two fetches, each followed by its extraction, then the chat
C19_Witness ==
  /\ Positions("search") = {1}
  /\ Positions("get") = {2, 4}
  /\ Positions("extract") = {3, 5}
  /\ Positions("chat") = {7}
  /\ calls[2].arg = 1
  /\ calls[4].arg = 2

RunOver == pc \in {"END", "idle"} /\ executed # <<>>

\* C20: in the final state of a run error is set exactly when handle_error
\* ran: none on the success path, the failing stage's error string otherwise.
C20_ErrorTellsPath ==
  RunOver =>
    /\ FinalState.error.some <=> Ran_("handle_error")
    /\ Ran_("handle_error") =>
         /\ SomeStageFailed
         /\ FinalState.error = Some(StageError)
    /\ ~Ran_("handle_error") => FinalState.error = None

\* a streamed run that failed in generate_answer is over
C20_Witness ==
  /\ RunOver
  /\ mode = "stream"
  /\ Ran_("handle_error")
  /\ Ran_("generate_answer")
  /\ FinalState.error.some
  /\ StartsWith(FinalState.error.val, GenerateFailed)

====
